---- MODULE Spec2Model ----
(***************************************************************************)
(* Model of excel_to_pdf.py: main() followed by export_excel_to_pdf().     *)
(* The program is single-threaded; pc is its position.  Every call into    *)
(* the automation layer (win32com), the dialog toolkit (tkinter) or the    *)
(* file system is one step that either returns or raises.                  *)
(*                                                                         *)
(* Environment:                                                            *)
(*   - an automation call may raise at any time (com_error); a sheet       *)
(*     lookup also raises whenever the sheet is not in the workbook;       *)
(*   - the dialog toolkit is usable for the whole process or not at all    *)
(*     (tkAvailable); when it is not, every dialog call raises TclError;   *)
(*   - os.path.exists never raises, os.path.getsize may raise OSError;     *)
(*   - print, str and the os.path string functions never raise.            *)
(***************************************************************************)
EXTENDS Integers, Sequences, FiniteSets, TLC

VARIABLES
    pc,             \* position of the program
    hasArg,         \* len(sys.argv) > 1
    fileExists,     \* os.path.exists(workbook_path)
    tkAvailable,    \* the dialog toolkit can create windows in this process
    sheets,         \* names of the sheets the workbook holds
    pdfOnDisk,      \* a file exists at pdf_filename
    excel,          \* local variable excel: "None" or "Application"
    wb,             \* local variable wb: "None" or "Workbook"
    wbOpen,         \* the application holds the workbook open
    visible,        \* excel.Visible
    displayAlerts,  \* excel.DisplayAlerts
    docId,          \* local variable doc_id: "unset" or "str"
    docRev,         \* local variable doc_rev: "unset" or "str"
    existedAtCheck, \* value of os.path.exists(pdf_filename) at line 48
    printTitles,    \* PageSetup.PrintTitleRows of the open workbook, per sheet
    storedTitles,   \* PageSetup.PrintTitleRows in the workbook file on disk
    selected,       \* sheets selected in the open workbook, in order
    trace,          \* every external call issued so far, in order
    determined,     \* what the try/except part decided: "none","True","False","raised"
    pending,        \* the outcome carried through the finally block
    result          \* what the caller of export_excel_to_pdf observes

vars == << pc, hasArg, fileExists, tkAvailable, sheets, pdfOnDisk, excel, wb,
           wbOpen, visible, displayAlerts, docId, docRev, existedAtCheck,
           printTitles, storedTitles, selected, trace, determined, pending,
           result >>

\* ------------------------------------------------------------ constants

SheetNames == {"Introduction", "Review", "Baseline content", "Change tracking"}

sheets_to_export == << "Introduction", "Review", "Baseline content", "Change tracking" >>

TitledSheets == {"Baseline content", "Review"}

BaselineRows == "$2:$4"

ReviewRows == "$24:$25"

NoTitles == [s \in TitledSheets |-> ""]

\* ------------------------------------------------------------ helpers

Ev(op, ok, ans) == [op |-> op, ok |-> ok, ans |-> ans]

Log(op, ok, ans) == trace' = Append(trace, Ev(op, ok, ans))

Idx(op) == {i \in 1..Len(trace) : trace[i].op = op}

IdxOk(op) == {i \in Idx(op) : trace[i].ok}

IdxAns(op, ans) == {i \in IdxOk(op) : trace[i].ans = ans}

Count(op) == Cardinality(Idx(op))

DialogOps == {"askopenfilename", "showerror_notfound", "askyesno",
              "showinfo_cancelled", "askokcancel", "showerror_savefailed",
              "showinfo_success", "showerror_error"}

Dialogs == {i \in 1..Len(trace) : trace[i].op \in DialogOps}

\* Worksheets(name) succeeds only for a sheet of the workbook
HasSheet(name) == name \in sheets

HasAll(names) == \A i \in 1..Len(names) : names[i] \in sheets

\* ------------------------------------------------------------ initial state

Init ==
    /\ pc = "main"
    /\ hasArg \in BOOLEAN
    /\ fileExists \in BOOLEAN
    /\ tkAvailable \in BOOLEAN
    /\ sheets \in SUBSET SheetNames
    /\ pdfOnDisk \in BOOLEAN
    /\ excel = "None"
    /\ wb = "None"
    /\ wbOpen = FALSE
    /\ visible = TRUE
    /\ displayAlerts = TRUE
    /\ docId = "unset"
    /\ docRev = "unset"
    /\ existedAtCheck = FALSE
    /\ printTitles = NoTitles
    /\ storedTitles = NoTitles
    /\ selected = << >>
    /\ trace = << >>
    /\ determined = "none"
    /\ pending = "none"
    /\ result = "none"

\* ------------------------------------------------------------ main()

\* main, line 166-167: the workbook path is the command-line argument
MainArgv ==
    /\ pc = "main"
    /\ hasArg
    /\ pc' = "checkPath"
    /\ UNCHANGED << hasArg, fileExists, tkAvailable, sheets, pdfOnDisk, excel,
                    wb, wbOpen, visible, displayAlerts, docId, docRev,
                    existedAtCheck, printTitles, storedTitles, selected,
                    trace, determined, pending, result >>

\* main, line 182-184: where main goes after the file selection
AfterSelection(chosen) == IF chosen THEN "checkPath" ELSE "exit"

\* main, line 168-184: no argument, the user selects the workbook
MainAskFile ==
    /\ pc = "main"
    /\ ~hasArg
    /\ \/ /\ ~tkAvailable
          /\ Log("askopenfilename", FALSE, "")
          /\ pc' = "crashed"
       \/ /\ tkAvailable
          /\ \E chosen \in BOOLEAN :
                /\ Log("askopenfilename", TRUE, IF chosen THEN "path" ELSE "")
                /\ pc' = AfterSelection(chosen)
    /\ UNCHANGED << hasArg, fileExists, tkAvailable, sheets, pdfOnDisk, excel,
                    wb, wbOpen, visible, displayAlerts, docId, docRev,
                    existedAtCheck, printTitles, storedTitles, selected,
                    determined, pending, result >>

AfterPathCheckAlwaysExport(exists) == "dispatch"

\* main, line 187-196: the workflow starts only for an existing path
AfterPathCheck(exists) == IF exists THEN "dispatch" ELSE "notFound"

\* main, line 187: os.path.exists(workbook_path)
MainCheckPath ==
    /\ pc = "checkPath"
    /\ pc' = AfterPathCheck(fileExists)
    /\ UNCHANGED << hasArg, fileExists, tkAvailable, sheets, pdfOnDisk, excel,
                    wb, wbOpen, visible, displayAlerts, docId, docRev,
                    existedAtCheck, printTitles, storedTitles, selected,
                    trace, determined, pending, result >>

\* main, line 188-190: error dialog, then main returns
MainNotFound ==
    /\ pc = "notFound"
    /\ Log("showerror_notfound", tkAvailable, "")
    /\ pc' = IF tkAvailable THEN "exit" ELSE "crashed"
    /\ UNCHANGED << hasArg, fileExists, tkAvailable, sheets, pdfOnDisk, excel,
                    wb, wbOpen, visible, displayAlerts, docId, docRev,
                    existedAtCheck, printTitles, storedTitles, selected,
                    determined, pending, result >>

\* main, line 196-201: export_excel_to_pdf has returned or raised
MainBanner ==
    /\ pc = "returned"
    /\ pc' = IF result = "raised" THEN "crashed" ELSE "exit"
    /\ UNCHANGED << hasArg, fileExists, tkAvailable, sheets, pdfOnDisk, excel,
                    wb, wbOpen, visible, displayAlerts, docId, docRev,
                    existedAtCheck, printTitles, storedTitles, selected,
                    trace, determined, pending, result >>

\* ------------------------------------------------------------ export_excel_to_pdf()

\* return statement inside the try block (lines 63, 78, 122, 134, 140)
Return(v) ==
    /\ determined' = v
    /\ pending' = v
    /\ pc' = "cleanupWb"

\* transfer of control inside the try block
Goto(target) ==
    IF target = "returnFalse" THEN Return("False")
    ELSE IF target = "returnTrue" THEN Return("True")
    ELSE /\ pc' = target
         /\ UNCHANGED << determined, pending >>

\* an exception in the try block enters the except clause (line 136)
Raise == Goto("handler")

\* line 23: excel = win32com.client.Dispatch("Excel.Application")
Dispatch ==
    /\ pc = "dispatch"
    /\ \E ok \in BOOLEAN :
          /\ Log("dispatch", ok, "")
          /\ excel' = IF ok THEN "Application" ELSE excel
          /\ IF ok THEN Goto("setVisible") ELSE Raise
    /\ UNCHANGED << hasArg, fileExists, tkAvailable, sheets, pdfOnDisk, wb,
                    wbOpen, visible, displayAlerts, docId, docRev,
                    existedAtCheck, printTitles, storedTitles, selected,
                    result >>

\* line 24: excel.Visible = False
SetVisible ==
    /\ pc = "setVisible"
    /\ \E ok \in BOOLEAN :
          /\ Log("setVisible", ok, "")
          /\ visible' = IF ok THEN FALSE ELSE visible
          /\ IF ok THEN Goto("setDisplayAlerts") ELSE Raise
    /\ UNCHANGED << hasArg, fileExists, tkAvailable, sheets, pdfOnDisk,
                    excel, wb, wbOpen, displayAlerts, docId, docRev,
                    existedAtCheck, printTitles, storedTitles, selected,
                    result >>

\* line 25: excel.DisplayAlerts = False
SetDisplayAlerts ==
    /\ pc = "setDisplayAlerts"
    /\ \E ok \in BOOLEAN :
          /\ Log("setDisplayAlerts", ok, "")
          /\ displayAlerts' = IF ok THEN FALSE ELSE displayAlerts
          /\ IF ok THEN Goto("open") ELSE Raise
    /\ UNCHANGED << hasArg, fileExists, tkAvailable, sheets, pdfOnDisk,
                    excel, wb, wbOpen, visible, docId, docRev,
                    existedAtCheck, printTitles, storedTitles, selected,
                    result >>

\* line 29: wb = excel.Workbooks.Open(os.path.abspath(workbook_path));
\* a path with no file behind it cannot be opened
Open ==
    /\ pc = "open"
    /\ \E ok \in BOOLEAN :
          LET done == ok /\ fileExists IN
          /\ Log("open", done, "")
          /\ wb' = IF done THEN "Workbook" ELSE wb
          /\ wbOpen' = IF done THEN TRUE ELSE wbOpen
          /\ IF done THEN Goto("getIntro") ELSE Raise
    /\ UNCHANGED << hasArg, fileExists, tkAvailable, sheets, pdfOnDisk,
                    excel, visible, displayAlerts, docId, docRev,
                    existedAtCheck, printTitles, storedTitles, selected,
                    result >>

\* line 33: intro_sheet = wb.Worksheets("Introduction")
GetIntro ==
    /\ pc = "getIntro"
    /\ \E ok \in BOOLEAN :
          LET done == ok /\ HasSheet("Introduction") IN
          /\ Log("getIntro", done, "")
          /\ IF done THEN Goto("readC5") ELSE Raise
    /\ UNCHANGED << hasArg, fileExists, tkAvailable, sheets, pdfOnDisk,
                    excel, wb, wbOpen, visible, displayAlerts, docId, docRev,
                    existedAtCheck, printTitles, storedTitles, selected,
                    result >>

\* line 34: doc_id = str(intro_sheet.Range("C5").Value)
ReadC5 ==
    /\ pc = "readC5"
    /\ \E ok \in BOOLEAN :
          /\ Log("readC5", ok, "")
          /\ docId' = IF ok THEN "str" ELSE docId
          /\ IF ok THEN Goto("readC6") ELSE Raise
    /\ UNCHANGED << hasArg, fileExists, tkAvailable, sheets, pdfOnDisk,
                    excel, wb, wbOpen, visible, displayAlerts, docRev,
                    existedAtCheck, printTitles, storedTitles, selected,
                    result >>

\* line 35: doc_rev = str(intro_sheet.Range("C6").Value)
ReadC6 ==
    /\ pc = "readC6"
    /\ \E ok \in BOOLEAN :
          /\ Log("readC6", ok, "")
          /\ docRev' = IF ok THEN "str" ELSE docRev
          /\ IF ok THEN Goto("checkExists") ELSE Raise
    /\ UNCHANGED << hasArg, fileExists, tkAvailable, sheets, pdfOnDisk,
                    excel, wb, wbOpen, visible, displayAlerts, docId,
                    existedAtCheck, printTitles, storedTitles, selected,
                    result >>

\* line 48: the overwrite question is asked only for an existing file
AfterExistsCheck(exists) == IF exists THEN "askOverwrite" ELSE "askSave"

\* line 41-48: build pdf_filename, os.path.exists(pdf_filename)
CheckExists ==
    /\ pc = "checkExists"
    /\ existedAtCheck' = pdfOnDisk
    /\ Goto(AfterExistsCheck(pdfOnDisk))
    /\ UNCHANGED << hasArg, fileExists, tkAvailable, sheets, pdfOnDisk,
                    excel, wb, wbOpen, visible, displayAlerts, docId, docRev,
                    printTitles, storedTitles, selected, trace, result >>

AfterOverwriteIgnoreAnswer(answer) == "askSave"

\* line 60: if not response
AfterOverwrite(answer) == IF answer THEN "askSave" ELSE "showCancelled"

\* line 49-60: tk.Tk(), withdraw, messagebox.askyesno, destroy
AskOverwrite ==
    /\ pc = "askOverwrite"
    /\ IF tkAvailable
       THEN \E answer \in BOOLEAN :
               /\ Log("askyesno", TRUE, IF answer THEN "yes" ELSE "no")
               /\ Goto(AfterOverwrite(answer))
       ELSE /\ Log("askyesno", FALSE, "")
            /\ Raise
    /\ UNCHANGED << hasArg, fileExists, tkAvailable, sheets, pdfOnDisk,
                    excel, wb, wbOpen, visible, displayAlerts, docId, docRev,
                    existedAtCheck, printTitles, storedTitles, selected,
                    result >>

AfterCancelledFallThrough == "askSave"

\* line 63: return False
AfterCancelled == "returnFalse"

\* line 61-63: messagebox.showinfo("Cancelled", ...), return False
ShowCancelled ==
    /\ pc = "showCancelled"
    /\ Log("showinfo_cancelled", tkAvailable, "")
    /\ IF tkAvailable THEN Goto(AfterCancelled) ELSE Raise
    /\ UNCHANGED << hasArg, fileExists, tkAvailable, sheets, pdfOnDisk,
                    excel, wb, wbOpen, visible, displayAlerts, docId, docRev,
                    existedAtCheck, printTitles, storedTitles, selected,
                    result >>

AfterSaveIgnoreAnswer(answer) == "titleBaseline"

\* line 76-78: if not response: return False
AfterSave(answer) == IF answer THEN "titleBaseline" ELSE "returnFalse"

\* line 66-78: tk.Tk(), withdraw, messagebox.askokcancel, destroy
AskSave ==
    /\ pc = "askSave"
    /\ IF tkAvailable
       THEN \E answer \in BOOLEAN :
               /\ Log("askokcancel", TRUE, IF answer THEN "ok" ELSE "cancel")
               /\ Goto(AfterSave(answer))
       ELSE /\ Log("askokcancel", FALSE, "")
            /\ Raise
    /\ UNCHANGED << hasArg, fileExists, tkAvailable, sheets, pdfOnDisk,
                    excel, wb, wbOpen, visible, displayAlerts, docId, docRev,
                    existedAtCheck, printTitles, storedTitles, selected,
                    result >>

\* line 82-83: wb.Worksheets("Baseline content").PageSetup.PrintTitleRows = "$2:$4"
TitleBaseline ==
    /\ pc = "titleBaseline"
    /\ \E ok \in BOOLEAN :
          LET done == ok /\ HasSheet("Baseline content") IN
          /\ Log("titleBaseline", done, BaselineRows)
          /\ printTitles' = IF done
                THEN [printTitles EXCEPT !["Baseline content"] = BaselineRows]
                ELSE printTitles
          /\ IF done THEN Goto("titleReview") ELSE Raise
    /\ UNCHANGED << hasArg, fileExists, tkAvailable, sheets, pdfOnDisk,
                    excel, wb, wbOpen, visible, displayAlerts, docId, docRev,
                    existedAtCheck, storedTitles, selected, result >>

AfterTitleReviewSkipSelect == "export"

\* line 88-100: after the second print title the sheets are selected
AfterTitleReview == "select"

\* line 87-88: wb.Worksheets("Review").PageSetup.PrintTitleRows = "$24:$25"
TitleReview ==
    /\ pc = "titleReview"
    /\ \E ok \in BOOLEAN :
          LET done == ok /\ HasSheet("Review") IN
          /\ Log("titleReview", done, ReviewRows)
          /\ printTitles' = IF done
                THEN [printTitles EXCEPT !["Review"] = ReviewRows]
                ELSE printTitles
          /\ IF done THEN Goto(AfterTitleReview) ELSE Raise
    /\ UNCHANGED << hasArg, fileExists, tkAvailable, sheets, pdfOnDisk,
                    excel, wb, wbOpen, visible, displayAlerts, docId, docRev,
                    existedAtCheck, storedTitles, selected, result >>

\* line 92-100: wb.Worksheets(sheets_to_export).Select()
SelectSheets ==
    /\ pc = "select"
    /\ \E ok \in BOOLEAN :
          LET done == ok /\ HasAll(sheets_to_export) IN
          /\ Log("select", done, "")
          /\ selected' = IF done THEN sheets_to_export ELSE selected
          /\ IF done THEN Goto("export") ELSE Raise
    /\ UNCHANGED << hasArg, fileExists, tkAvailable, sheets, pdfOnDisk,
                    excel, wb, wbOpen, visible, displayAlerts, docId, docRev,
                    existedAtCheck, printTitles, storedTitles, result >>

\* line 103-112: wb.ActiveSheet.ExportAsFixedFormat(Type=0, Filename=pdf_filename, ...);
\* a call that returns normally has usually written the file, but the file
\* system decides what is at the path afterwards
Export ==
    /\ pc = "export"
    /\ \E ok \in BOOLEAN :
          /\ Log("export", ok, "")
          /\ IF ok THEN pdfOnDisk' \in BOOLEAN ELSE pdfOnDisk' = pdfOnDisk
          /\ IF ok THEN Goto("verify") ELSE Raise
    /\ UNCHANGED << hasArg, fileExists, tkAvailable, sheets, excel, wb,
                    wbOpen, visible, displayAlerts, docId, docRev,
                    existedAtCheck, printTitles, storedTitles, selected,
                    result >>

VerifyBranchInverted(exists) == IF exists THEN "showSaveFailed" ELSE "getsize"

\* line 115: if not os.path.exists(pdf_filename)
VerifyBranch(exists) == IF exists THEN "getsize" ELSE "showSaveFailed"

\* line 115: os.path.exists(pdf_filename)
Verify ==
    /\ pc = "verify"
    /\ Goto(VerifyBranch(pdfOnDisk))
    /\ UNCHANGED << hasArg, fileExists, tkAvailable, sheets, pdfOnDisk,
                    excel, wb, wbOpen, visible, displayAlerts, docId, docRev,
                    existedAtCheck, printTitles, storedTitles, selected,
                    trace, result >>

\* line 116-122: messagebox.showerror("Save Failed", ...), return False
ShowSaveFailed ==
    /\ pc = "showSaveFailed"
    /\ Log("showerror_savefailed", tkAvailable, "")
    /\ IF tkAvailable THEN Goto("returnFalse") ELSE Raise
    /\ UNCHANGED << hasArg, fileExists, tkAvailable, sheets, pdfOnDisk,
                    excel, wb, wbOpen, visible, displayAlerts, docId, docRev,
                    existedAtCheck, printTitles, storedTitles, selected,
                    result >>

\* line 124-125: file_size = os.path.getsize(pdf_filename); exists and
\* getsize both stat the path, so getsize raises only when the file has gone
\* since the check of line 115
GetSize ==
    /\ pc = "getsize"
    /\ \E there \in {b \in BOOLEAN : b => pdfOnDisk} :
          /\ Log("getsize", there, "")
          /\ pdfOnDisk' = there
          /\ IF there THEN Goto("showSuccess") ELSE Raise
    /\ UNCHANGED << hasArg, fileExists, tkAvailable, sheets,
                    excel, wb, wbOpen, visible, displayAlerts, docId, docRev,
                    existedAtCheck, printTitles, storedTitles, selected,
                    result >>

\* line 127-134: messagebox.showinfo("Success", ...), return True
ShowSuccess ==
    /\ pc = "showSuccess"
    /\ Log("showinfo_success", tkAvailable, "")
    /\ IF tkAvailable THEN Goto("returnTrue") ELSE Raise
    /\ UNCHANGED << hasArg, fileExists, tkAvailable, sheets, pdfOnDisk,
                    excel, wb, wbOpen, visible, displayAlerts, docId, docRev,
                    existedAtCheck, printTitles, storedTitles, selected,
                    result >>

\* line 136-140: except Exception: messagebox.showerror("Error", ...), return False;
\* an exception raised by the dialog call leaves the function after the
\* finally block
Handler ==
    /\ pc = "handler"
    /\ Log("showerror_error", tkAvailable, "")
    /\ Return(IF tkAvailable THEN "False" ELSE "raised")
    /\ UNCHANGED << hasArg, fileExists, tkAvailable, sheets, pdfOnDisk,
                    excel, wb, wbOpen, visible, displayAlerts, docId, docRev,
                    existedAtCheck, printTitles, storedTitles, selected,
                    result >>

\* ------------------------------------------------------------ finally block

\* line 150-151 and 157-158: except: pass
Swallow(outcome) == outcome

AfterWbCleanupFailureSkipQuit == "finish"

\* line 150-153: after a failed workbook cleanup the second try block runs
AfterWbCleanupFailure == "cleanupExcel"

\* line 145-147: if wb: wb.Worksheets("Introduction").Select()
CleanupReselect ==
    /\ pc = "cleanupWb"
    /\ IF wb = "None"
       THEN /\ pc' = "cleanupExcel"
            /\ UNCHANGED << trace, selected, pending >>
       ELSE \E ok \in BOOLEAN :
               LET done == ok /\ HasSheet("Introduction") IN
               /\ Log("reselect", done, "")
               /\ selected' = IF done THEN << "Introduction" >> ELSE selected
               /\ pending' = IF done THEN pending ELSE Swallow(pending)
               /\ pc' = IF done THEN "close" ELSE AfterWbCleanupFailure
    /\ UNCHANGED << hasArg, fileExists, tkAvailable, sheets, pdfOnDisk,
                    excel, wb, wbOpen, visible, displayAlerts, docId, docRev,
                    existedAtCheck, printTitles, storedTitles, determined,
                    result >>

SaveChangesTrue == TRUE

\* line 148: the SaveChanges argument of wb.Close
SaveChanges == FALSE

\* line 148: wb.Close(SaveChanges=False)
CleanupClose ==
    /\ pc = "close"
    /\ \E ok \in BOOLEAN :
          /\ Log("close", ok, IF SaveChanges THEN "save" ELSE "discard")
          /\ wbOpen' = IF ok THEN FALSE ELSE wbOpen
          /\ storedTitles' = IF ok /\ SaveChanges THEN printTitles ELSE storedTitles
          /\ pending' = IF ok THEN pending ELSE Swallow(pending)
          /\ pc' = IF ok THEN "cleanupExcel" ELSE AfterWbCleanupFailure
    /\ UNCHANGED << hasArg, fileExists, tkAvailable, sheets, pdfOnDisk,
                    excel, wb, visible, displayAlerts, docId, docRev,
                    existedAtCheck, printTitles, selected, determined,
                    result >>

\* line 154-155: if excel: excel.Quit(); a workbook still open is discarded
\* without a prompt when DisplayAlerts is off, and is saved or not as the
\* user answers the prompt when it is on
CleanupQuit ==
    /\ pc = "cleanupExcel"
    /\ IF excel = "None"
       THEN UNCHANGED << trace, wbOpen, storedTitles, pending >>
       ELSE \E ok \in BOOLEAN :
               /\ Log("quit", ok, "")
               /\ wbOpen' = IF ok THEN FALSE ELSE wbOpen
               /\ storedTitles' \in
                     IF ok /\ wbOpen /\ displayAlerts
                     THEN {storedTitles, printTitles}
                     ELSE {storedTitles}
               /\ pending' = IF ok THEN pending ELSE Swallow(pending)
    /\ pc' = "finish"
    /\ UNCHANGED << hasArg, fileExists, tkAvailable, sheets, pdfOnDisk,
                    excel, wb, visible, displayAlerts, docId, docRev,
                    existedAtCheck, printTitles, selected, determined,
                    result >>

\* line 142-158: the finally block is over, the function returns or raises
ExportReturn ==
    /\ pc = "finish"
    /\ result' = pending
    /\ pc' = "returned"
    /\ UNCHANGED << hasArg, fileExists, tkAvailable, sheets, pdfOnDisk,
                    excel, wb, wbOpen, visible, displayAlerts, docId, docRev,
                    existedAtCheck, printTitles, storedTitles, selected,
                    trace, determined, pending >>

\* ------------------------------------------------------------ specification

Next ==
    \/ MainArgv \/ MainAskFile \/ MainCheckPath \/ MainNotFound \/ MainBanner
    \/ Dispatch \/ SetVisible \/ SetDisplayAlerts \/ Open
    \/ GetIntro \/ ReadC5 \/ ReadC6 \/ CheckExists
    \/ AskOverwrite \/ ShowCancelled \/ AskSave
    \/ TitleBaseline \/ TitleReview \/ SelectSheets \/ Export
    \/ Verify \/ ShowSaveFailed \/ GetSize \/ ShowSuccess \/ Handler
    \/ CleanupReselect \/ CleanupClose \/ CleanupQuit \/ ExportReturn

Spec == Init /\ [][Next]_vars

\* ------------------------------------------------------------ properties

\* export_excel_to_pdf has returned to, or raised into, its caller
Exited == result # "none"

\* the external calls made by the try block (steps 1-10)
TryOps == {"dispatch", "setVisible", "setDisplayAlerts", "open", "getIntro",
           "readC5", "readC6", "askyesno", "showinfo_cancelled",
           "askokcancel", "titleBaseline", "titleReview", "select", "export",
           "showerror_savefailed", "getsize", "showinfo_success"}

TryFailures == {i \in 1..Len(trace) : trace[i].op \in TryOps /\ ~trace[i].ok}

CleanupFailures ==
    {i \in 1..Len(trace) : trace[i].op \in {"reselect", "close", "quit"} /\ ~trace[i].ok}

MutationOps == {"titleBaseline", "titleReview", "select", "export"}

NoMutationOrExport ==
    /\ \A i \in 1..Len(trace) : trace[i].op \notin MutationOps
    /\ printTitles = NoTitles
    /\ selected # sheets_to_export

\* C1: when the function has exited, an opened workbook has had Close called
\* exactly once, with discard, a created session has had Quit called exactly
\* once, and neither is called for a handle that was never acquired.
C1_ReleasedExactlyOnce ==
    Exited =>
        /\ (wb # "None" => Count("close") = 1)
        /\ (wb = "None" => Count("close") = 0)
        /\ (excel # "None" => Count("quit") = 1)
        /\ (excel = "None" => Count("quit") = 0)
        /\ \A i \in Idx("close") : trace[i].ans = "discard"

\* C2: when a call of steps 1-10 has raised and the function has exited, the
\* error dialog was called, the function returned False and nothing was
\* raised into the caller.
C2_ExceptionBecomesFailure ==
    (Exited /\ TryFailures # {}) =>
        /\ Count("showerror_error") = 1
        /\ result = "False"

\* C3: once the user has answered no to the overwrite question, the save
\* question is never asked, no print title is set, no sheets are selected,
\* nothing is exported, and the function exits with the cancelled notice
\* shown and the value False.
C3_OverwriteDeclined ==
    IdxAns("askyesno", "no") # {} =>
        /\ existedAtCheck
        /\ Count("askokcancel") = 0
        /\ NoMutationOrExport
        /\ Exited => /\ IdxOk("showinfo_cancelled") # {}
                     /\ result = "False"

C3_Witness ==
    /\ Exited
    /\ IdxAns("askyesno", "no") # {}
    /\ result = "False"

\* C4: once the user has answered cancel to the save question, no print
\* title is set, no sheets are selected, nothing is exported, no error dialog
\* is called, and the function exits with the value False.
C4_SaveDeclined ==
    IdxAns("askokcancel", "cancel") # {} =>
        /\ NoMutationOrExport
        /\ Count("showerror_error") = 0
        /\ Count("showerror_savefailed") = 0
        /\ Exited => result = "False"

C4_Witness ==
    /\ Exited
    /\ IdxAns("askokcancel", "cancel") # {}
    /\ result = "False"

\* C5: when the export call has returned normally and the function has
\* exited, it returned True with the success dialog exactly if the output
\* file is on disk; with the file absent an error dialog was called and it
\* returned False; exactly one of the success and error dialogs was called.
C5_VerifiedOutcome ==
    (Exited /\ IdxOk("export") # {}) =>
        /\ (result = "True" /\ Count("showinfo_success") = 1) <=> pdfOnDisk
        /\ ~pdfOnDisk =>
              /\ Count("showerror_savefailed") + Count("showerror_error") = 1
              /\ result = "False"
        /\ Count("showinfo_success") + Count("showerror_savefailed")
              + Count("showerror_error") = 1

C5_WitnessAbsent ==
    /\ Exited
    /\ IdxOk("export") # {}
    /\ ~pdfOnDisk
    /\ Count("showerror_savefailed") = 1
    /\ result = "False"

\* C6: when the function has exited, what the caller observes is what the
\* try/except part decided, whatever failed in the finally block, and Quit
\* was called if the session was created, also after a failed workbook
\* cleanup.
C6_CleanupBestEffort ==
    Exited =>
        /\ result = determined
        /\ excel # "None" => Count("quit") = 1

C6_Witness ==
    /\ Exited
    /\ \E i \in CleanupFailures : trace[i].op \in {"reselect", "close"}
    /\ Count("quit") = 1
    /\ result = "True"

\* C7: the workbook file on disk never holds the print titles set by the
\* run, and every Close call discards changes.
C7_NeverSaved ==
    /\ storedTitles = NoTitles
    /\ \A i \in Idx("close") : trace[i].ans = "discard"

C7_Witness ==
    /\ Exited
    /\ printTitles["Baseline content"] = BaselineRows
    /\ printTitles["Review"] = ReviewRows
    /\ IdxOk("close") # {}
    /\ storedTitles = NoTitles

\* C8: at most four dialog calls are made in a run.
C8_AtMostFourDialogs == Cardinality(Dialogs) <= 4

C8_Witness ==
    /\ pc = "exit"
    /\ Cardinality(Dialogs) = 4

\* the workbook path main works with was determined
PathDetermined == hasArg \/ IdxAns("askopenfilename", "path") # {}

C10_ExportOrder ==
    /\ Count("export") <= 1
    /\ \A x \in Idx("export") :
          /\ \E o \in IdxOk("open"), a \in IdxOk("readC5"), b \in IdxOk("readC6"),
                s \in IdxAns("askokcancel", "ok"), t \in IdxOk("titleBaseline"),
                u \in IdxOk("titleReview"), v \in IdxOk("select") :
                   /\ o < a /\ a < b /\ b < s /\ s < t /\ t < u /\ u < v /\ v < x
                   /\ existedAtCheck =>
                         \E y \in IdxAns("askyesno", "yes") : b < y /\ y < s
          /\ Idx("reselect") = {} => selected = sheets_to_export
          /\ \A c \in Idx("reselect") \cup Idx("close") \cup Idx("quit") : x < c
    /\ \A c \in Idx("close"), q \in Idx("quit") : c < q

C10_Witness ==
    /\ Exited
    /\ IdxOk("export") # {}
    /\ IdxOk("close") # {}
    /\ IdxOk("quit") # {}
    /\ existedAtCheck

====
